---- MODULE Spec2Model ----
(***************************************************************************)
(* PolyPasswordHasher (Reed-Solomon variant): the password store of        *)
(* pph_ecc/polypasswordhasher.py as a state machine.                       *)
(*                                                                         *)
(* Byte strings are symbolic: a 32-byte value is the XOR of a set of       *)
(* atoms (a SHA-256 digest, an AES ciphertext, a share of the secret), and *)
(* a byte string is a sequence of slices of such values, so that lengths,  *)
(* slicing, concatenation and XOR behave as they do on real bytes while    *)
(* two values are equal only when they were built the same way (no hash    *)
(* collisions).                                                            *)
(***************************************************************************)
EXTENDS Integers, Sequences, FiniteSets, TLC

(* ------------------------------ bounds --------------------------------- *)
NumUsers == 2
NumPasswords == 2
NumSalts == 1
MaxThreshold == 2
\* the large share count a caller may ask for (an administrator account)
BigShares == 253
\* share counts up to this many draw one salt per record from Salts;
\* larger accounts use the same salt for all their records
MaxSaltEnum == 2

(* ------------------------- program constants --------------------------- *)
saltsize == 16
icb_iterations == 1000
recombination_iterations == 100000
secret_length == 32
MaxShareNumber == 255
\* the number of isolated-check bytes a store is built with when it uses them
IcbBytes == 2

Users == 1..NumUsers
Passwords == 1..NumPasswords
Salts == 1..NumSalts
Thresholds == 1..MaxThreshold
IcbChoices == {0, IcbBytes}
\* the share counts callers ask for: ordinary accounts, and (BigShareInputs)
\* a store with one very large administrator account
ShareInputs == {-1, 0, 1, 2, MaxShareNumber + 1}
BigShareInputs == {0, 1, BigShares}

\* the secret os.urandom gives a fresh store, and the secret a decoder
\* produces when it corrects towards the wrong polynomial
GoodSecret == 1
WrongSecret == 2
NoKey == 0

Max(a, b) == IF a > b THEN a ELSE b
\* Op applied to the value of x, x being evaluated once
With(x, Op(_)) == CHOOSE y \in {Op(v) : v \in {x}} : TRUE

\* len(range(a, b))
RangeLen(a, b) == IF b > a THEN b - a ELSE 0
Min(a, b) == IF a < b THEN a ELSE b

(* ------------------------------ bytes ---------------------------------- *)
\* a SHA-256 digest and the secret are both 32 bytes long
DigestLen == secret_length

Atom(tag, salt, pw, it, sec, x) ==
  [tag |-> tag, salt |-> salt, pw |-> pw, it |-> it, sec |-> sec, x |-> x]

\* the byte string holding all the bytes of the 32-byte value v
Full(v) == << [v |-> v, lo |-> 0, hi |-> DigestLen] >>

RECURSIVE BLen(_)
BLen(bs) == IF bs = <<>> THEN 0 ELSE (bs[1].hi - bs[1].lo) + BLen(Tail(bs))

\* Python's bs[from:to] for 0 <= from, to
RECURSIVE Slice(_, _, _)
Slice(bs, from, to) ==
  IF bs = <<>> \/ to <= 0 THEN <<>>
  ELSE LET s == bs[1]
           n == s.hi - s.lo
           a == Max(from, 0)
           z == Min(to, n)
           head == IF a < z THEN << [v |-> s.v, lo |-> s.lo + a, hi |-> s.lo + z] >>
                   ELSE <<>>
       IN head \o Slice(Tail(bs), from - n, to - n)

\* sha256(salt + password).digest()
SaltedHash(salt, password) == Full({Atom("sha", salt, password, 1, 0, 0)})

\* sha256(secret).digest()
SecretHash(secret) == Full({Atom("sha", 0, 0, 1, secret, 0)})

\* sha256(d).digest() applied n times to a digest d
Sha256Iter(d, n) ==
  LET a == CHOOSE a \in d[1].v : TRUE
  IN Full({[a EXCEPT !.it = a.it + n]})

\* AES.new(key).encrypt(h) for a digest h
AESEncrypt(key, h) ==
  LET a == CHOOSE a \in h[1].v : TRUE
  IN Full({[a EXCEPT !.tag = "aes", !.sec = key]})

\* _do_bytearray_XOR: assert(len(a) == len(b)) ...
XorAsserts(a, b) == BLen(a) # BLen(b)

\* ... then the byte-wise XOR of two byte strings of the same shape
do_bytearray_XOR(a, b) ==
  [i \in 1..Len(a) |->
     [v |-> (a[i].v \ b[i].v) \cup (b[i].v \ a[i].v), lo |-> a[i].lo, hi |-> a[i].hi]]

(* ------------------------------ state ---------------------------------- *)
VARIABLES
  threshold,               \* self.threshold
  isolated_check_bits,     \* self.isolated_check_bits
  accountdict,             \* username -> list of entries
  bootstrap_accounts,      \* references <<username, index>> to bootstrap entries
  reedsolomonobj,          \* the share engine: [present, secretdata]
  knownsecret,             \* self.knownsecret
  secret_integrity_check,  \* the fingerprint of the secret
  shieldedkey,             \* the AES key (NoKey for None)
  nextavailableshare,      \* the share counter
  passwordfile,            \* what write_password_data pickled, if anything
  last,                    \* the last operation that changed the store or the file
  created,                 \* history: the password each account was created with
  bootstrapped,            \* history: the accounts created while bootstrapping
  origin                   \* history: "fresh", "loaded", or "unlocked" after a load

vars == << threshold, isolated_check_bits, accountdict, bootstrap_accounts,
           reedsolomonobj, knownsecret, secret_integrity_check, shieldedkey,
           nextavailableshare, passwordfile, last, created, bootstrapped,
           origin >>

Entry(sharenumber, salt, passhash) ==
  [sharenumber |-> sharenumber, salt |-> salt, passhash |-> passhash,
   passshash |-> <<>>]

NoEngine == [present |-> FALSE, secretdata |-> NoKey]
Engine(secret) == [present |-> TRUE, secretdata |-> secret]

(* --------------------------- share engine ------------------------------ *)
\* the bytes of the share of `secret` at coordinate x
ShareBytes(secret, x) == Full({Atom("share", 0, 0, 0, secret, x)})

\* reedsolomonobj.compute_share(x)[1]
compute_share(x) == ShareBytes(reedsolomonobj.secretdata, x)

\* reedsolomonobj.is_valid_share((x, data))
is_valid_share(x, data) ==
  /\ reedsolomonobj.secretdata # NoKey
  /\ x \in 1..MaxShareNumber
  /\ data = ShareBytes(reedsolomonobj.secretdata, x)

\* the shares of the list that do not lie on the polynomial of `secret`
ErroneousShares(sharelist, secret) ==
  {i \in 1..Len(sharelist) :
     \/ sharelist[i][1] \notin 1..MaxShareNumber
     \/ sharelist[i][2] # ShareBytes(secret, sharelist[i][1])}

\* floor((n - k) / 2), the number of wrong shares the decoder corrects
Capacity(n, k) == (n - k) \div 2

\* reedsolomonobj.recover_secretdata(sharelist): with fewer than k shares it
\* fails; with at most Capacity wrong shares it finds the secret; with more
\* it either gives up or (miscorrect) decodes to another polynomial
recover_secretdata(sharelist, k, miscorrect) ==
  LET n == Len(sharelist) IN
  IF n < k THEN [result |-> "InsufficientShares", secretdata |-> reedsolomonobj.secretdata]
  ELSE IF Cardinality(ErroneousShares(sharelist, GoodSecret)) <= Capacity(n, k)
       THEN [result |-> "ok", secretdata |-> GoodSecret]
  ELSE IF miscorrect THEN [result |-> "ok", secretdata |-> WrongSecret]
  ELSE [result |-> "UnrecoverableShares", secretdata |-> reedsolomonobj.secretdata]

(* ------------------------ secrets and ICBs ----------------------------- *)
\* create_secret / verify_secret: one sha256, then range(1, iterations) more
SecretDigest(secret) ==
  Sha256Iter(SecretHash(secret), RangeLen(1, recombination_iterations))

\* variant: a check that accepts whatever secret the decoder returns
verify_secret_accepting(secret) == SecretDigest(secret) = SecretDigest(secret)

verify_secret(secret) == SecretDigest(secret) = secret_integrity_check

\* create_isolated_validation_bits: range(1, icb_iterations) rounds of sha256,
\* then the last isolated_check_bits bytes
create_isolated_validation_bits(passhash) ==
  LET d == Sha256Iter(passhash, RangeLen(1, icb_iterations))
  IN Slice(d, BLen(d) - isolated_check_bits, BLen(d))

isolated_validation(passhash, stored_hash) ==
  LET passhash_icb == create_isolated_validation_bits(passhash)
      local_icb == Slice(stored_hash, BLen(stored_hash) - isolated_check_bits,
                         BLen(stored_hash))
  IN passhash_icb = local_icb

\* entry['passhash'][:len(entry['passhash']) - self.isolated_check_bits]
Core(passhash) == Slice(passhash, 0, BLen(passhash) - isolated_check_bits)

(* -------------------------- create_account ----------------------------- *)
Put(acc, username, entries) ==
  [u \in DOMAIN acc \cup {username} |-> IF u = username THEN entries ELSE acc[u]]

\* `shares > 255 or shares < 0`
InvalidShareCount(shares) == shares > MaxShareNumber \/ shares < 0

\* `shares + self.nextavailableshare > 255`
WouldExceedShares(shares) == shares + nextavailableshare > MaxShareNumber

\* the entry of a bootstrap account (made while the secret is unknown)
BootstrapEntry(salt, password) == Entry(-1, salt, SaltedHash(salt, password))

\* the entry of a shielded account
ShieldedEntry(salt, password) ==
  LET saltedpasswordhash == SaltedHash(salt, password)
  IN Entry(0, salt, AESEncrypt(shieldedkey, saltedpasswordhash)
                      \o create_isolated_validation_bits(saltedpasswordhash))

\* the entry that holds share number `sharenumber`
ProtectorEntry(sharenumber, salt, password) ==
  LET reedsolomondata == compute_share(sharenumber)
      saltedpasswordhash == SaltedHash(salt, password)
  IN Entry(sharenumber, salt,
           do_bytearray_XOR(saltedpasswordhash, reedsolomondata)
             \o create_isolated_validation_bits(saltedpasswordhash))

\* variant: a counter that create_account does not advance
NextNotAdvanced(shares) == nextavailableshare + 0 * shares

\* self.nextavailableshare += shares
NextAfterCreate(shares) == nextavailableshare + shares

\* variant: a create_account that does not delete the empty list it made
\* when it refuses to make shares while bootstrapping
create_account_keeping_list(username, password, shares, salts) ==
  LET same == [result |-> "ok", accountdict |-> accountdict,
               bootstrap_accounts |-> bootstrap_accounts,
               nextavailableshare |-> nextavailableshare]
      empty == Put(accountdict, username, <<>>)
  IN
  IF username \in DOMAIN accountdict THEN [same EXCEPT !.result = "DuplicateUser"]
  ELSE IF InvalidShareCount(shares) THEN [same EXCEPT !.result = "ShareExhausted"]
  ELSE IF WouldExceedShares(shares) THEN [same EXCEPT !.result = "ShareExhausted"]
  ELSE IF ~knownsecret THEN
    IF shares # 0 THEN [same EXCEPT !.result = "BootstrapOnly", !.accountdict = empty]
    ELSE [same EXCEPT
            !.accountdict = Put(accountdict, username, << BootstrapEntry(salts[1], password) >>),
            !.bootstrap_accounts = Append(bootstrap_accounts, << username, 1 >>),
            !.nextavailableshare = NextAfterCreate(shares)]
  ELSE IF shares = 0 THEN
    IF shieldedkey = NoKey
    THEN [same EXCEPT !.result = "TypeError", !.accountdict = empty]
    ELSE [same EXCEPT
            !.accountdict = Put(accountdict, username, << ShieldedEntry(salts[1], password) >>)]
  ELSE
    IF ~reedsolomonobj.present
    THEN [same EXCEPT !.result = "AttributeError", !.accountdict = empty]
    ELSE [same EXCEPT
            !.accountdict = Put(accountdict, username,
               [i \in 1..shares |->
                  ProtectorEntry(nextavailableshare + i - 1, salts[i], password)]),
            !.nextavailableshare = NextAfterCreate(shares)]

\* create_account(username, password, shares), salts[i] being the i-th salt
\* os.urandom returns: how the call ends and the fields it leaves behind
create_account(username, password, shares, salts) ==
  LET same == [result |-> "ok", accountdict |-> accountdict,
               bootstrap_accounts |-> bootstrap_accounts,
               nextavailableshare |-> nextavailableshare]
      empty == Put(accountdict, username, <<>>)
  IN
  IF username \in DOMAIN accountdict THEN [same EXCEPT !.result = "DuplicateUser"]
  ELSE IF InvalidShareCount(shares) THEN [same EXCEPT !.result = "ShareExhausted"]
  ELSE IF WouldExceedShares(shares) THEN [same EXCEPT !.result = "ShareExhausted"]
  ELSE IF ~knownsecret THEN
    IF shares # 0 THEN [same EXCEPT !.result = "BootstrapOnly"]
    ELSE [same EXCEPT
            !.accountdict = Put(accountdict, username, << BootstrapEntry(salts[1], password) >>),
            !.bootstrap_accounts = Append(bootstrap_accounts, << username, 1 >>),
            !.nextavailableshare = NextAfterCreate(shares)]
  ELSE IF shares = 0 THEN
    IF shieldedkey = NoKey
    THEN [same EXCEPT !.result = "TypeError", !.accountdict = empty]
    ELSE [same EXCEPT
            !.accountdict = Put(accountdict, username, << ShieldedEntry(salts[1], password) >>)]
  ELSE
    IF ~reedsolomonobj.present
    THEN [same EXCEPT !.result = "AttributeError", !.accountdict = empty]
    ELSE [same EXCEPT
            !.accountdict = Put(accountdict, username,
               [i \in 1..shares |->
                  ProtectorEntry(nextavailableshare + i - 1, salts[i], password)]),
            !.nextavailableshare = NextAfterCreate(shares)]

(* -------------------------- is_valid_login ----------------------------- *)
\* variant: a guard that looks at isolated_check_bits only
StillBootstrappingAnyState == isolated_check_bits = 0

\* `not self.knownsecret and self.isolated_check_bits == 0`
StillBootstrapping == ~knownsecret /\ isolated_check_bits = 0

Bool(b) == IF b THEN "True" ELSE "False"

\* one pass of the loop body over `entry`: every path of the body returns
LoginEntry(entry, password) ==
  LET saltedpasswordhash == SaltedHash(entry.salt, password)
      core == Core(entry.passhash)
  IN
  IF entry.sharenumber = -1 THEN Bool(saltedpasswordhash = entry.passhash)
  ELSE IF ~knownsecret THEN Bool(isolated_validation(saltedpasswordhash, entry.passhash))
  ELSE IF XorAsserts(saltedpasswordhash, core) THEN "AssertionError"
  ELSE IF entry.sharenumber = 0 THEN
    IF shieldedkey = NoKey THEN "TypeError"
    ELSE Bool(AESEncrypt(shieldedkey, saltedpasswordhash) = core)
  ELSE IF ~reedsolomonobj.present THEN "AttributeError"
  ELSE Bool(is_valid_share(entry.sharenumber,
                           do_bytearray_XOR(saltedpasswordhash, core)))

\* is_valid_login(username, password): "True", "False", or the error raised;
\* the loop returns in its first pass, and falls through (None) on no entry
is_valid_login(username, password) ==
  IF StillBootstrapping THEN "StillBootstrapping"
  ELSE IF username \notin DOMAIN accountdict THEN "UnknownUser"
  ELSE IF accountdict[username] = <<>> THEN "None"
  ELSE LoginEntry(accountdict[username][1], password)

\* the number of entries the loop of is_valid_login looks at before the call
\* ends: every path through the loop body returns (or raises), so the loop
\* never goes on to a second entry
EntriesExamined(username, password) ==
  IF StillBootstrapping \/ username \notin DOMAIN accountdict THEN 0
  ELSE Min(1, Len(accountdict[username]))

(* ------------------------ write_password_data -------------------------- *)
\* variant: a threshold test that lets a store with exactly threshold - 1
\* shares be written
UnderThresholdStrict == threshold > nextavailableshare

\* `self.threshold >= self.nextavailableshare`
UnderThreshold == threshold >= nextavailableshare

\* variant: a pickle that misses the fingerprint
PickledWithoutFingerprint ==
  [exists |-> TRUE,
   threshold |-> threshold,
   accountdict |-> accountdict,
   bootstrap_accounts |-> bootstrap_accounts,
   isolated_check_bits |-> isolated_check_bits,
   knownsecret |-> knownsecret,
   secret_integrity_check |-> SecretDigest(NoKey),
   nextavailableshare |-> nextavailableshare,
   secret |-> NoKey,
   shieldedkey |-> NoKey,
   reedsolomonobj |-> NoEngine]

\* pickle.dumps(self) after `self.secret = None`, `self.shieldedkey = None`
\* and `self.reedsolomonobj = None`: the instance's attributes as pickled
PickledStore ==
  [exists |-> TRUE,
   threshold |-> threshold,
   accountdict |-> accountdict,
   bootstrap_accounts |-> bootstrap_accounts,
   isolated_check_bits |-> isolated_check_bits,
   knownsecret |-> knownsecret,
   secret_integrity_check |-> secret_integrity_check,
   nextavailableshare |-> nextavailableshare,
   secret |-> NoKey,
   shieldedkey |-> NoKey,
   reedsolomonobj |-> NoEngine]

NoFile == [exists |-> FALSE]

\* write_password_data(passwordfile): how the call ends and the fields it
\* leaves behind; opened is whether open(passwordfile, 'w') succeeds (when
\* it raises, the three assignments that put the backups back are not
\* reached)
write_password_data(opened) ==
  LET same == [result |-> "ok", passwordfile |-> passwordfile,
               shieldedkey |-> shieldedkey, reedsolomonobj |-> reedsolomonobj,
               knownsecret |-> knownsecret]
  IN
  IF UnderThreshold THEN [same EXCEPT !.result = "UnderThreshold"]
  ELSE IF opened THEN [same EXCEPT !.passwordfile = PickledStore]
  ELSE [same EXCEPT !.result = "IOError", !.shieldedkey = NoKey,
                    !.reedsolomonobj = NoEngine]

(* ------------------------ loading a password file ---------------------- *)
\* every share number stored in an account map
ShareNumbers(acc) ==
  UNION {{acc[u][i].sharenumber : i \in 1..Len(acc[u])} : u \in DOMAIN acc}

SetMax(S) == CHOOSE m \in S : \A n \in S : n <= m

\* the loop `nextavailableshare = max(nextavailableshare, sharenumber)` from
\* None, then `self.nextavailableshare += self.nextavailableshare`
LoadedNextShare(acc) ==
  With(ShareNumbers(acc), LAMBDA S : With(SetMax(S), LAMBDA largest : largest + largest))

(* ----------------------- unlock_password_data -------------------------- *)
\* `if entry['sharenumber'] == 0: continue`
IgnoredInUnlock(entry) == entry.sharenumber = 0

\* the share the inner loop makes of one entry
CandidateShare(entry, password) ==
  << entry.sharenumber,
     do_bytearray_XOR(SaltedHash(entry.salt, password), Core(entry.passhash)) >>

\* the j-th smallest member of a set of positions (initial: the set is 1..n)
Nth(kept, initial, j) ==
  IF initial THEN j
  ELSE CHOOSE i \in kept : Cardinality({m \in kept : m < i}) = j - 1

\* the inner loop over one user's entries: the shares it appends to
\* sharelist, in the order of the entries, or the assertion of the XOR helper
EntryShares(entries, password) ==
  With({i \in 1..Len(entries) : ~IgnoredInUnlock(entries[i])}, LAMBDA kept :
    With(kept = 1..Cardinality(kept), LAMBDA initial :
      IF \E i \in kept : XorAsserts(SaltedHash(entries[i].salt, password),
                                    Core(entries[i].passhash))
      THEN [err |-> "AssertionError", shares |-> << >>]
      ELSE [err |-> "ok",
            shares |-> [j \in 1..Cardinality(kept) |->
                          CandidateShare(entries[Nth(kept, initial, j)], password)]]))

\* the outer loop over logindata from position i on
RECURSIVE CollectShares(_, _)
CollectShares(logindata, i) ==
  IF i > Len(logindata) THEN [err |-> "ok", shares |-> << >>]
  ELSE LET username == logindata[i][1]
           password == logindata[i][2]
       IN IF username \notin DOMAIN accountdict
          THEN [err |-> "UnknownUser", shares |-> << >>]
          ELSE With(EntryShares(accountdict[username], password), LAMBDA mine :
                 IF mine.err # "ok" THEN mine
                 ELSE With(CollectShares(logindata, i + 1), LAMBDA rest :
                        IF rest.err # "ok" THEN rest
                        ELSE [err |-> "ok", shares |-> mine.shares \o rest.shares]))

\* the loop over self.bootstrap_accounts: each entry gets the key 'passshash'
\* and share number 0
RECURSIVE PromoteBootstrap(_, _, _)
PromoteBootstrap(acc, refs, key) ==
  IF refs = <<>> THEN acc
  ELSE LET u == refs[1][1]
           i == refs[1][2]
           entry == acc[u][i]
           promoted == [entry EXCEPT !.passshash = AESEncrypt(key, entry.passhash),
                                     !.sharenumber = 0]
       IN PromoteBootstrap([acc EXCEPT ![u][i] = promoted], Tail(refs), key)

\* variant: an unlock that installs the recovered secret as the key before
\* it checks the fingerprint
UnlockKeyBeforeCheck(collected, recovered) ==
  LET same == [result |-> "ok", accountdict |-> accountdict,
               bootstrap_accounts |-> bootstrap_accounts,
               reedsolomonobj |-> reedsolomonobj,
               shieldedkey |-> shieldedkey, knownsecret |-> knownsecret]
      engine == [reedsolomonobj EXCEPT !.secretdata = recovered.secretdata]
  IN
  IF collected.err # "ok" THEN [same EXCEPT !.result = collected.err]
  ELSE IF ~reedsolomonobj.present THEN [same EXCEPT !.result = "AttributeError"]
  ELSE IF recovered.result # "ok" THEN [same EXCEPT !.result = recovered.result]
  ELSE IF ~verify_secret(recovered.secretdata)
       THEN [same EXCEPT !.result = "BadUnlock", !.reedsolomonobj = engine,
                         !.shieldedkey = recovered.secretdata]
  ELSE [result |-> "ok",
        accountdict |-> PromoteBootstrap(accountdict, bootstrap_accounts,
                                         recovered.secretdata),
        bootstrap_accounts |-> <<>>,
        reedsolomonobj |-> engine,
        shieldedkey |-> recovered.secretdata,
        knownsecret |-> TRUE]

\* unlock_password_data after the loops: collected is what they gathered,
\* recovered what recover_secretdata made of it
UnlockOutcome(collected, recovered) ==
  LET same == [result |-> "ok", accountdict |-> accountdict,
               bootstrap_accounts |-> bootstrap_accounts,
               reedsolomonobj |-> reedsolomonobj,
               shieldedkey |-> shieldedkey, knownsecret |-> knownsecret]
      engine == [reedsolomonobj EXCEPT !.secretdata = recovered.secretdata]
  IN
  IF collected.err # "ok" THEN [same EXCEPT !.result = collected.err]
  ELSE IF ~reedsolomonobj.present THEN [same EXCEPT !.result = "AttributeError"]
  ELSE IF recovered.result # "ok" THEN [same EXCEPT !.result = recovered.result]
  ELSE IF ~verify_secret(recovered.secretdata)
       THEN [same EXCEPT !.result = "BadUnlock", !.reedsolomonobj = engine]
  ELSE [result |-> "ok",
        accountdict |-> PromoteBootstrap(accountdict, bootstrap_accounts,
                                         recovered.secretdata),
        bootstrap_accounts |-> <<>>,
        reedsolomonobj |-> engine,
        shieldedkey |-> recovered.secretdata,
        knownsecret |-> TRUE]

\* variant: an unlock that does not look at knownsecret first
unlock_in_any_state(logindata, miscorrect) ==
  With(CollectShares(logindata, 1), LAMBDA collected :
    With(recover_secretdata(collected.shares, threshold, miscorrect),
         LAMBDA recovered : UnlockOutcome(collected, recovered)))

\* unlock_password_data(logindata): how the call ends and the fields it
\* leaves behind; miscorrect is the decoder's choice on too many wrong shares
unlock_password_data(logindata, miscorrect) ==
  IF knownsecret
  THEN [result |-> "AlreadyUnlocked", accountdict |-> accountdict,
        bootstrap_accounts |-> bootstrap_accounts, reedsolomonobj |-> reedsolomonobj,
        shieldedkey |-> shieldedkey, knownsecret |-> knownsecret]
  ELSE With(CollectShares(logindata, 1), LAMBDA collected :
         With(recover_secretdata(collected.shares, threshold, miscorrect),
              LAMBDA recovered : UnlockOutcome(collected, recovered)))

(* ------------------------------ inputs --------------------------------- *)
\* the salts os.urandom hands to one create_account call
SaltChoices(shares) ==
  IF shares <= MaxSaltEnum THEN [1..Max(shares, 1) -> Salts]
  ELSE {[i \in 1..shares |-> salt] : salt \in Salts}

RECURSIVE LoginSeq(_, _)
LoginSeq(S, pw) ==
  IF S = {} THEN <<>>
  ELSE LET u == CHOOSE m \in S : \A n \in S : m <= n
       IN << << u, pw[u] >> >> \o LoginSeq(S \ {u}, pw)

\* the lists of (username, password) pairs given to unlock_password_data:
\* distinct users, each with one password
LoginLists == UNION {{LoginSeq(S, pw) : pw \in [S -> Passwords]} : S \in SUBSET Users}

\* the names given to create_account: a name in use, or the next unused one
\* (names are dictionary keys and nothing else, so new accounts take them in
\* order)
CreateNames ==
  DOMAIN accountdict \cup
  {u \in Users : u \notin DOMAIN accountdict
                 /\ \A w \in Users : w < u => w \in DOMAIN accountdict}

(* ------------------------------ actions -------------------------------- *)
\* PolyPasswordHasher(threshold, passwordfile = None, isolated_check_bits)
Init ==
  /\ threshold \in Thresholds
  /\ isolated_check_bits \in IcbChoices
  /\ accountdict = << >>
  /\ bootstrap_accounts = << >>
  /\ shieldedkey = GoodSecret
  /\ secret_integrity_check = SecretDigest(GoodSecret)
  /\ reedsolomonobj = Engine(GoodSecret)
  /\ knownsecret = TRUE
  /\ nextavailableshare = 1
  /\ passwordfile = NoFile
  /\ last = [op |-> "new", result |-> "ok"]
  /\ created = [u \in Users |-> 0]
  /\ bootstrapped = {}
  /\ origin = "fresh"

\* an operation that raises without touching the store leaves every
\* variable as it was
CreateAccountWith(sharecounts) ==
  \E username \in CreateNames, password \in Passwords, shares \in sharecounts :
    \E salts \in SaltChoices(shares) :
      \E r \in {create_account(username, password, shares, salts)} :
      /\ accountdict' = r.accountdict
      /\ bootstrap_accounts' = r.bootstrap_accounts
      /\ nextavailableshare' = r.nextavailableshare
      /\ last' = IF r.accountdict # accountdict
                 THEN [op |-> "create_account", result |-> r.result] ELSE last
      /\ created' = IF r.result = "ok" THEN [created EXCEPT ![username] = password]
                    ELSE created
      /\ bootstrapped' = IF r.result = "ok" /\ ~knownsecret
                         THEN bootstrapped \cup {username} ELSE bootstrapped
      /\ UNCHANGED << threshold, isolated_check_bits, reedsolomonobj, knownsecret,
                      secret_integrity_check, shieldedkey, passwordfile, origin >>

CreateAccount == CreateAccountWith(ShareInputs)

CreateBigAccount == CreateAccountWith(BigShareInputs)

LoginResults ==
  {"True", "False", "None", "StillBootstrapping", "UnknownUser", "AssertionError",
   "TypeError", "AttributeError"}

\* is_valid_login reads the store and changes nothing
IsValidLogin ==
  \E username \in Users, password \in Passwords :
    /\ is_valid_login(username, password) \in LoginResults
    /\ UNCHANGED vars

\* write_password_data(passwordfile); a call that raises UnderThreshold
\* changes nothing
WritePasswordData ==
  \E opened \in BOOLEAN :
    \E r \in {write_password_data(opened)} :
      /\ passwordfile' = r.passwordfile
      /\ shieldedkey' = r.shieldedkey
      /\ reedsolomonobj' = r.reedsolomonobj
      /\ knownsecret' = r.knownsecret
      /\ last' = IF r.result = "UnderThreshold" THEN last
                 ELSE [op |-> "write_password_data", result |-> r.result]
      /\ UNCHANGED << threshold, isolated_check_bits, accountdict, bootstrap_accounts,
                      secret_integrity_check, nextavailableshare, created,
                      bootstrapped, origin >>

\* PolyPasswordHasher(threshold, passwordfile, isolated_check_bits) with the
\* threshold and isolated_check_bits the file was written under; the new
\* object replaces the old one
LoadPasswordFile ==
  /\ passwordfile.exists
  /\ ShareNumbers(passwordfile.accountdict) # {}
  /\ reedsolomonobj' = Engine(NoKey)
  /\ knownsecret' = FALSE
  /\ shieldedkey' = NoKey
  /\ bootstrap_accounts' = << >>
  /\ accountdict' = passwordfile.accountdict
  /\ secret_integrity_check' = passwordfile.secret_integrity_check
  /\ nextavailableshare' = LoadedNextShare(passwordfile.accountdict)
  /\ last' = [op |-> "load", result |-> "ok"]
  /\ origin' = "loaded"
  /\ created' = [u \in Users |-> IF u \in DOMAIN passwordfile.accountdict
                                 THEN created[u] ELSE 0]
  /\ bootstrapped' = bootstrapped \cap DOMAIN passwordfile.accountdict
  /\ UNCHANGED << threshold, isolated_check_bits, passwordfile >>

UnlockPasswordData ==
  \E logindata \in LoginLists, miscorrect \in BOOLEAN :
    \E r \in {unlock_password_data(logindata, miscorrect)} :
    /\ accountdict' = r.accountdict
    /\ bootstrap_accounts' = r.bootstrap_accounts
    /\ reedsolomonobj' = r.reedsolomonobj
    /\ shieldedkey' = r.shieldedkey
    /\ knownsecret' = r.knownsecret
    /\ last' = IF r.result = "ok" \/ r.reedsolomonobj # reedsolomonobj
               THEN [op |-> "unlock_password_data", result |-> r.result] ELSE last
    /\ origin' = IF r.result = "ok" THEN "unlocked" ELSE origin
    /\ UNCHANGED << threshold, isolated_check_bits, secret_integrity_check,
                    nextavailableshare, passwordfile, created, bootstrapped >>

Next ==
  \/ CreateAccount
  \/ IsValidLogin
  \/ WritePasswordData
  \/ LoadPasswordFile
  \/ UnlockPasswordData

Spec == Init /\ [][Next]_vars

\* the same store under callers that create a very large account
InitBig == Init /\ threshold = 1 /\ isolated_check_bits = IcbBytes

NextBig ==
  \/ CreateBigAccount
  \/ IsValidLogin
  \/ WritePasswordData
  \/ LoadPasswordFile
  \/ UnlockPasswordData

SpecBig == InitBig /\ [][NextBig]_vars

(* ------------------------------ claims --------------------------------- *)
\* the accounts of the store that create_account made with a password
Accounts == {u \in DOMAIN accountdict : created[u] # 0}

\* the protector entries (share number 1 and up) of an account
ProtectorPositions(u) ==
  {i \in 1..Len(accountdict[u]) : accountdict[u][i].sharenumber >= 1}

\* the store holds what it needs to verify: no write has lost its key and engine
Intact == reedsolomonobj.present /\ (knownsecret => shieldedkey # NoKey)

\* C1: in an unlocked store, every account accepts the password it was
\* created with and rejects every other password (stated for stores that
\* still hold their key and share engine).
C1_LoginDecidesPassword ==
  (knownsecret /\ Intact) =>
    \A u \in Accounts : \A p \in Passwords :
      is_valid_login(u, p) = Bool(p = created[u])

\* C2: after a successful unlock, every account created as a bootstrap
\* account while the store was locked has share number 0 and accepts exactly
\* its original password.
C2_BootstrapPromoted ==
  (origin = "unlocked" /\ Intact) =>
    \A u \in bootstrapped \cap Accounts :
      /\ \A i \in 1..Len(accountdict[u]) : accountdict[u][i].sharenumber = 0
      /\ \A p \in Passwords : is_valid_login(u, p) = Bool(p = created[u])

\* every name of the list is an account of the store
AllKnown(logindata) == \A i \in 1..Len(logindata) : logindata[i][1] \in Accounts

\* the candidate shares a list stands for: one per protector entry of the
\* submitted accounts (wrong: counting only those submitted with a password
\* other than the account's)
RECURSIVE CandidateCount(_, _)
CandidateCount(logindata, wrong) ==
  IF logindata = << >> THEN 0
  ELSE LET u == logindata[1][1]
           counted == ~wrong \/ logindata[1][2] # created[u]
       IN (IF counted THEN Cardinality(ProtectorPositions(u)) ELSE 0)
          + CandidateCount(Tail(logindata), wrong)

Locked == origin = "loaded" /\ ~knownsecret

\* the submissions of a list made with a password other than the account's
WrongSubmissions(logindata) ==
  {i \in 1..Len(logindata) : logindata[i][2] # created[logindata[i][1]]}

\* C3: on a locked store, unlock succeeds whenever there are at least
\* k + 2e submissions for existing users of which e are incorrect (in
\* particular k correct ones and none incorrect); stated for lists that
\* satisfy the bound both counted in submissions and counted in the
\* protector shares behind them.
C3_UnlockSucceeds ==
  (Locked /\ Intact) =>
    \A logindata \in LoginLists :
      (/\ AllKnown(logindata)
       /\ Len(logindata)
            >= threshold + 2 * Cardinality(WrongSubmissions(logindata))
       /\ CandidateCount(logindata, FALSE)
            >= threshold + 2 * CandidateCount(logindata, TRUE))
      => \A miscorrect \in BOOLEAN :
           With(unlock_password_data(logindata, miscorrect), LAMBDA r :
             r.result = "ok" /\ r.knownsecret)

\* more wrong candidate shares than the decoder corrects
TooManyWrong(logindata) ==
  CandidateCount(logindata, TRUE)
    > Capacity(CandidateCount(logindata, FALSE), threshold)

C5_UnlockAllOrNothing ==
  Locked =>
    \A logindata \in LoginLists, miscorrect \in BOOLEAN :
      With(unlock_password_data(logindata, miscorrect), LAMBDA r :
        r.result # "ok" =>
          /\ ~r.knownsecret
          /\ r.shieldedkey = NoKey
          /\ r.accountdict = accountdict
          /\ r.bootstrap_accounts = bootstrap_accounts)

\* C5 witness: a locked store in which an unlock has failed, and on which
\* unlock fails in each of the ways the claim lists
C5_Witness ==
  /\ Locked
  /\ last.op = "unlock_password_data" /\ last.result # "ok"
  /\ \E a, b, c, d \in LoginLists :
       /\ unlock_password_data(a, FALSE).result = "UnknownUser"
       /\ unlock_password_data(b, FALSE).result = "InsufficientShares"
       /\ unlock_password_data(c, FALSE).result = "UnrecoverableShares"
       /\ unlock_password_data(d, TRUE).result = "BadUnlock"

\* C6: a store constructed from a written file is locked, holds no key, and
\* has the account map and fingerprint the writer had when it wrote, entry
\* for entry.
C6_RoundTrip ==
  /\ last = [op |-> "write_password_data", result |-> "ok"]
       => /\ passwordfile.accountdict = accountdict
          /\ passwordfile.secret_integrity_check = secret_integrity_check
          /\ secret_integrity_check = SecretDigest(GoodSecret)
  /\ last.op = "load"
       => /\ ~knownsecret
          /\ shieldedkey = NoKey
          /\ accountdict = passwordfile.accountdict
          /\ secret_integrity_check = passwordfile.secret_integrity_check
          /\ secret_integrity_check = SecretDigest(GoodSecret)

\* C6 witness: a store just loaded from a file that holds a protector entry
\* and a shielded entry
C6_Witness ==
  /\ last.op = "load"
  /\ {0, 1} \subseteq ShareNumbers(accountdict)

\* C7: with b = 0, a loaded store answers every is_valid_login (known user
\* or not) with StillBootstrapping until an unlock succeeds, whatever is
\* called in between, and never does so once an unlock has succeeded.
C7_StillBootstrappingUntilUnlock ==
  isolated_check_bits = 0 =>
    \A u \in Users, p \in Passwords :
      /\ origin = "loaded" => is_valid_login(u, p) = "StillBootstrapping"
      /\ origin = "unlocked" => is_valid_login(u, p) # "StillBootstrapping"

\* C7 witness: a store with b = 0 unlocked after a reload during which a
\* bootstrap account was created
C7_Witness ==
  /\ isolated_check_bits = 0
  /\ origin = "unlocked"
  /\ bootstrapped # {}
  /\ last.op = "unlock_password_data"

\* the protector share numbers of an account map, as (user, position, number)
ProtectorRecords(acc) ==
  UNION {{<< u, i, acc[u][i].sharenumber >> :
            i \in {j \in 1..Len(acc[u]) : acc[u][j].sharenumber >= 1}} :
         u \in DOMAIN acc}

C8_Numbering ==
  With(ProtectorRecords(accountdict), LAMBDA recs :
    /\ \A r \in recs : r[3] \in 1..(MaxShareNumber - 1) /\ r[3] < nextavailableshare
    /\ Cardinality({r[3] : r \in recs}) = Cardinality(recs))

\* a create_account step hands out only numbers above every number in the map
C8_HandedOutAscending ==
  (last'.op = "create_account" /\ accountdict' # accountdict) =>
    With({r[3] : r \in ProtectorRecords(accountdict)}, LAMBDA old :
      \A u \in DOMAIN accountdict' \ DOMAIN accountdict :
        \A i \in 1..Len(accountdict'[u]) :
          /\ accountdict'[u][i].sharenumber >= 1
               => \A o \in old : o < accountdict'[u][i].sharenumber
          /\ (i > 1 /\ accountdict'[u][i].sharenumber >= 1)
               => accountdict'[u][i - 1].sharenumber < accountdict'[u][i].sharenumber)

\* C8: every protector entry has a share number in 1..254, no two protector
\* entries of the map have the same number, and each create_account hands out
\* numbers above those handed out before.
C8_ShareNumbers == [][C8_Numbering' /\ C8_HandedOutAscending]_vars

\* C8 witness: share number 254, the largest, has been handed out, after
\* an account of one share and an account of many
C8_Witness ==
  /\ \E r \in ProtectorRecords(accountdict) : r[3] = MaxShareNumber - 1
  /\ Cardinality(Accounts) = 2

\* the largest protector share number of the map (0 when there is none)
LargestAllocated == SetMax({r[3] : r \in ProtectorRecords(accountdict)} \cup {0})

\* C9: the share counter is one more than the largest protector share number
\* allocated and at most 255, in particular right after a load.
C9_NextShare ==
  /\ nextavailableshare = LargestAllocated + 1
  /\ nextavailableshare <= MaxShareNumber

\* C10: in a locked store, create_account(user, password, 0) for a new
\* username succeeds, stores one entry with share number -1 holding the raw
\* salted hash, appends it to the bootstrap ledger, leaves the share counter
\* alone, and (b > 0) the account then accepts its password.
C10_BootstrapCreate ==
  Locked =>
    \A username \in Users \ DOMAIN accountdict, password \in Passwords, salt \in Salts :
      With(create_account(username, password, 0, << salt >>), LAMBDA r :
        /\ r.result = "ok"
        /\ username \in DOMAIN r.accountdict
        /\ r.accountdict[username]
             = << Entry(-1, salt, SaltedHash(salt, password)) >>
        /\ BLen(r.accountdict[username][1].passhash) = DigestLen
        /\ r.bootstrap_accounts = Append(bootstrap_accounts, << username, 1 >>)
        /\ r.nextavailableshare = nextavailableshare
        /\ isolated_check_bits > 0
             => LoginEntry(r.accountdict[username][1], password) = "True")

\* the share counts of ShareInputs that ask for at least one share
SomeShares == {shares \in ShareInputs : shares >= 1}

\* C11 (as claimed): in the locked state, create_account with shares >= 1
\* for a new username fails with BootstrapOnly and the username is not in
\* the account map afterwards.
C11_FailsBootstrapOnly ==
  Locked =>
    \A username \in Users \ DOMAIN accountdict, password \in Passwords,
       shares \in SomeShares :
      \A salts \in SaltChoices(shares) :
        With(create_account(username, password, shares, salts), LAMBDA r :
          r.result = "BootstrapOnly" /\ username \notin DOMAIN r.accountdict)

\* C11 (amended): in the locked state, create_account with shares >= 1
\* always fails and leaves the account map, the ledger and the share counter
\* as they were, so a new username is not in the map afterwards; the error
\* is DuplicateUser for a username in the map, else ShareExhausted when
\* shares > 255 or shares + next_share > 255, else BootstrapOnly.
C11_LockedSharesRefused ==
  Locked =>
    \A username \in Users, password \in Passwords, shares \in SomeShares :
      \A salts \in SaltChoices(shares) :
        With(create_account(username, password, shares, salts), LAMBDA r :
          /\ r.result = IF username \in DOMAIN accountdict THEN "DuplicateUser"
                        ELSE IF shares > MaxShareNumber
                                \/ shares + nextavailableshare > MaxShareNumber
                             THEN "ShareExhausted"
                        ELSE "BootstrapOnly"
          /\ r.accountdict = accountdict
          /\ r.bootstrap_accounts = bootstrap_accounts
          /\ r.nextavailableshare = nextavailableshare
          /\ username \notin DOMAIN accountdict => username \notin DOMAIN r.accountdict)

\* C11 witness: a locked store with room for a new name, where asking for
\* one share is refused as BootstrapOnly and asking for 256 as ShareExhausted
C11_Witness ==
  /\ Locked
  /\ \E username \in Users \ DOMAIN accountdict, password \in Passwords :
       /\ create_account(username, password, 1, << 1 >>).result = "BootstrapOnly"
       /\ \E salts \in SaltChoices(MaxShareNumber + 1) :
            create_account(username, password, MaxShareNumber + 1, salts).result
              = "ShareExhausted"

\* the last isolated_check_bits bytes of a stored passhash
StoredIcb(passhash) ==
  Slice(passhash, BLen(passhash) - isolated_check_bits, BLen(passhash))

\* C12: in a locked store with b > 0, is_valid_login never raises
\* StillBootstrapping, accepts for every account the password it was created
\* with, and for a protector or shielded entry answers exactly whether
\* ICB(h) equals the last b bytes of the stored passhash.
C12_IsolatedLogin ==
  (Locked /\ isolated_check_bits > 0) =>
    /\ \A u \in Users, p \in Passwords : is_valid_login(u, p) # "StillBootstrapping"
    /\ \A u \in Accounts :
         /\ is_valid_login(u, created[u]) = "True"
         /\ accountdict[u][1].sharenumber >= 0 =>
              \A p \in Passwords :
                is_valid_login(u, p)
                  = Bool(create_isolated_validation_bits(
                           SaltedHash(accountdict[u][1].salt, p))
                         = StoredIcb(accountdict[u][1].passhash))

\* C13: write_password_data raises UnderThreshold exactly when
\* next_share <= k, and then writes nothing and changes nothing in the store.
C13_UnderThreshold ==
  \A opened \in BOOLEAN :
    With(write_password_data(opened), LAMBDA r :
      /\ r.result = "UnderThreshold" <=> nextavailableshare <= threshold
      /\ r.result = "UnderThreshold" =>
           /\ r.passwordfile = passwordfile
           /\ r.shieldedkey = shieldedkey
           /\ r.reedsolomonobj = reedsolomonobj
           /\ r.knownsecret = knownsecret)

\* C13 witness: a store with accounts whose share counter equals the
\* threshold, so that the write is refused, next to a file written earlier
C13_Witness ==
  /\ Accounts # {}
  /\ nextavailableshare = threshold
  /\ write_password_data(TRUE).result = "UnderThreshold"

\* C14: the data in the file holds no shielded key, no share engine and no
\* flag saying that the secret is known.
C14_FileHidesSecretState ==
  passwordfile.exists =>
    /\ passwordfile.shieldedkey = NoKey
    /\ passwordfile.secret = NoKey
    /\ passwordfile.reedsolomonobj = NoEngine
    /\ ~passwordfile.knownsecret

\* C15: a create_account that fails leaves the account map, the bootstrap
\* ledger and the share counter exactly as they were; a username in the map
\* is refused as DuplicateUser.
C15_CreateTransactional ==
  \A username \in Users, password \in Passwords, shares \in ShareInputs :
    \A salts \in SaltChoices(shares) :
      With(create_account(username, password, shares, salts), LAMBDA r :
        /\ username \in DOMAIN accountdict => r.result = "DuplicateUser"
        /\ r.result # "ok" =>
             /\ r.accountdict = accountdict
             /\ r.bootstrap_accounts = bootstrap_accounts
             /\ r.nextavailableshare = nextavailableshare)

\* C16: write_password_data, whether it succeeds or fails, leaves the
\* lifecycle state, the shielded key and the share engine as they were (the
\* call assigns no other field of the store).
C16_WriteLeavesStore ==
  \A opened \in BOOLEAN :
    With(write_password_data(opened), LAMBDA r :
      /\ r.knownsecret = knownsecret
      /\ r.shieldedkey = shieldedkey
      /\ r.reedsolomonobj = reedsolomonobj)

\* a fresh store is unlocked, a store just loaded is locked, and on an
\* unlocked store unlock_password_data raises AlreadyUnlocked and changes
\* nothing
C17_States ==
  /\ origin = "fresh" => knownsecret
  /\ last.op = "load" => ~knownsecret
  /\ knownsecret =>
       \A logindata \in LoginLists, miscorrect \in BOOLEAN :
         With(unlock_password_data(logindata, miscorrect), LAMBDA r :
           /\ r.result = "AlreadyUnlocked"
           /\ r.knownsecret
           /\ r.accountdict = accountdict
           /\ r.bootstrap_accounts = bootstrap_accounts
           /\ r.shieldedkey = shieldedkey
           /\ r.reedsolomonobj = reedsolomonobj)

\* only constructing a store from a file takes an unlocked store's place by
\* a locked one
C17_NeverRelocked == (knownsecret /\ ~knownsecret') => last'.op = "load"

\* C17: the lifecycle is monotone on one store object: fresh starts
\* unlocked, loaded starts locked, no operation locks an unlocked store, and
\* unlock on an unlocked store raises AlreadyUnlocked and changes nothing.
C17_LifecycleMonotone == []C17_States /\ [][C17_NeverRelocked]_vars

\* C17 witness: a store that was unlocked after a reload and has been
\* written since, on which a further unlock is refused
C17_Witness ==
  /\ origin = "unlocked"
  /\ last.op = "write_password_data"
  /\ Accounts # {}
  /\ \E logindata \in LoginLists :
       unlock_password_data(logindata, FALSE).result = "AlreadyUnlocked"

\* C18: in unlock_password_data only the protector entries of the submitted
\* users become candidate shares; a submitted bootstrap or shielded account
\* adds no share and does not by itself make the call fail.
C18_OnlyProtectorShares ==
  Locked =>
    \A logindata \in LoginLists :
      (\A i \in 1..Len(logindata) : logindata[i][1] \in DOMAIN accountdict) =>
        With(CollectShares(logindata, 1), LAMBDA collected :
          /\ collected.err = "ok"
          /\ Len(collected.shares) = CandidateCount(logindata, FALSE)
          /\ \A j \in 1..Len(collected.shares) :
               collected.shares[j][1] \in 1..MaxShareNumber)

\* C19: for a user with several entries, is_valid_login on an unlocked store
\* goes through the entries in stored order, returns true at the first one
\* that validates the password, and returns false only when every entry has
\* been examined and rejected.
C19_ExaminesEveryEntry ==
  (knownsecret /\ Intact) =>
    \A u \in Accounts, p \in Passwords :
      With(EntriesExamined(u, p), LAMBDA n :
        /\ is_valid_login(u, p) = "True" =>
             /\ LoginEntry(accountdict[u][n], p) = "True"
             /\ \A i \in 1..(n - 1) : LoginEntry(accountdict[u][i], p) = "False"
        /\ is_valid_login(u, p) = "False" =>
             /\ n = Len(accountdict[u])
             /\ \A i \in 1..n : LoginEntry(accountdict[u][i], p) = "False")

\* C20: every entry with share number >= 0, entries promoted from bootstrap
\* included, has a passhash of 32 + b bytes whose last b bytes are the ICB of
\* the salted hash of the account's password; every entry with share number
\* -1 has a passhash of exactly 32 bytes.
C20_PasshashLayout ==
  \A u \in Accounts : \A i \in 1..Len(accountdict[u]) :
    With(accountdict[u][i], LAMBDA entry :
      IF entry.sharenumber >= 0
      THEN /\ BLen(entry.passhash) = DigestLen + isolated_check_bits
           /\ StoredIcb(entry.passhash)
                = create_isolated_validation_bits(SaltedHash(entry.salt, created[u]))
      ELSE BLen(entry.passhash) = DigestLen)

\* the positions (user, index) of the entries with share number -1
BootstrapPositions ==
  UNION {{<< u, i >> : i \in {j \in 1..Len(accountdict[u]) :
                                 accountdict[u][j].sharenumber = -1}} :
         u \in DOMAIN accountdict}

\* C21: the bootstrap ledger refers to exactly the entries of the account
\* map whose share number is -1, so an unlocked store holds no entry with
\* share number -1.
C21_LedgerMatchesMap ==
  /\ {bootstrap_accounts[j] : j \in 1..Len(bootstrap_accounts)} = BootstrapPositions
  /\ knownsecret => BootstrapPositions = {}

\* the last b bytes of SHA-256 applied n times to the digest h
IcbOfRounds(h, n) ==
  With(Sha256Iter(h, n), LAMBDA d : Slice(d, BLen(d) - isolated_check_bits, BLen(d)))

\* C22: the isolated-check suffix of a salted hash h is the last b bytes of
\* SHA-256 applied exactly icb_iterations = 1000 times to h, when an entry is
\* created and when a login is checked, and the integrity fingerprint is
\* SHA-256 applied exactly recombination_iterations = 100000 times to the
\* secret.
C22_IterationCounts ==
  /\ secret_integrity_check
       = Full({Atom("sha", 0, 0, recombination_iterations, GoodSecret, 0)})
  /\ \A salt \in Salts, p \in Passwords :
       With(SaltedHash(salt, p), LAMBDA h :
         /\ create_isolated_validation_bits(h) = IcbOfRounds(h, icb_iterations)
         /\ isolated_validation(h, h \o IcbOfRounds(h, icb_iterations)))
  /\ \A u \in Accounts \ bootstrapped : \A i \in 1..Len(accountdict[u]) :
       StoredIcb(accountdict[u][i].passhash)
         = IcbOfRounds(SaltedHash(accountdict[u][i].salt, created[u]), icb_iterations)

====
